---- MODULE Spec2Model ----
(***************************************************************************)
(* Divide-and-conquer forecasting engine                                   *)
(* (backend/app/services/forecasting/divide_conquer_engine.py).            *)
(*                                                                         *)
(* Numbers.  A float is an exact rational <<n, d>> with d > 0 in lowest    *)
(* terms; <<0, 0>> is NaN and <<1, 0>>, <<-1, 0>> are the infinities that  *)
(* a numpy array division by zero produces.  np.std takes a square root:   *)
(* it is computed to two decimal digits (in units of 1 / Precision), and   *)
(* the confidence derived from it is kept to the same number of digits.    *)
(***************************************************************************)
EXTENDS Integers, Sequences, FiniteSets, TLC

VARIABLES
    df,                     \* the caller's dataset: a sequence of records
    columns,                \* the column names of the caller's dataset
    min_segment_size,       \* DataSegmenter.min_segment_size
    horizon,                \* the requested horizon
    segmentation_strategy,  \* the requested strategy
    pc,                     \* where the running operation stands
    segments,               \* the list the Segmenter returned
    idx,                    \* CONQUER loop: index of the next segment
    segment_forecasts,      \* predict's list handed to the Merger
    result,                 \* what the operation returned or raised
    calls,                  \* how often each component was invoked
    outcomes,               \* CONQUER: for each segment, whether it was forecast
    ensemble_call,          \* a direct ensemble_forecast call and its result
    merge_call,             \* a direct merge call and its result
    runs,                   \* the results of the predict calls made so far
    seed                    \* what the clustering and the models do with an input

vars == <<df, columns, min_segment_size, horizon, segmentation_strategy, pc,
          segments, idx, segment_forecasts, result, calls, outcomes,
          ensemble_call, merge_call, runs, seed>>

---------------------------------------------------------------------------
(* Bounds of the model *)

MaxRecords == 2
MaxSegmenterRecords == 3
MaxMinSegmentSize == 2
MaxHorizon == 2
MaxPrices == 3
MaxMembers == 2

(* Program constants *)

MAWindow == 7
MaxClusters == 5

---------------------------------------------------------------------------
(* Rational arithmetic standing for numpy / Python floats *)

Abs(a) == IF a < 0 THEN -a ELSE a

Sign(a) == IF a < 0 THEN -1 ELSE IF a > 0 THEN 1 ELSE 0

RECURSIVE GCD(_, _)
GCD(a, b) == IF b = 0 THEN a ELSE GCD(b, a % b)

NaN == <<0, 0>>

Norm(n, d) ==
    IF d = 0 THEN <<Sign(n), 0>>
    ELSE LET g == GCD(Abs(n), Abs(d))
             s == IF d < 0 THEN -1 ELSE 1
         IN  <<(s * n) \div g, (s * d) \div g>>

R(n) == <<n, 1>>

IsFinite(x) == x[2] > 0

IsNaN(x) == x = NaN

RAdd(x, y) ==
    IF IsFinite(x) /\ IsFinite(y) THEN Norm(x[1] * y[2] + y[1] * x[2], x[2] * y[2])
    ELSE IF IsNaN(x) \/ IsNaN(y) THEN NaN
    ELSE IF ~IsFinite(x) /\ ~IsFinite(y) THEN (IF x = y THEN x ELSE NaN)
    ELSE IF IsFinite(x) THEN y ELSE x

RNeg(x) == <<-x[1], x[2]>>

RSub(x, y) == RAdd(x, RNeg(y))

RMul(x, y) ==
    IF IsFinite(x) /\ IsFinite(y) THEN Norm(x[1] * y[1], x[2] * y[2])
    ELSE IF IsNaN(x) \/ IsNaN(y) \/ x[1] = 0 \/ y[1] = 0 THEN NaN
    ELSE <<Sign(x[1]) * Sign(y[1]), 0>>

\* x / y on numpy floats: 0/0 is nan, x/0 is +-inf, nothing raises
RDiv(x, y) ==
    IF IsFinite(x) /\ IsFinite(y)
    THEN (IF y[1] = 0 THEN <<Sign(x[1]), 0>> ELSE Norm(x[1] * y[2], x[2] * y[1]))
    ELSE IF IsNaN(x) \/ IsNaN(y) THEN NaN
    ELSE IF ~IsFinite(x) /\ ~IsFinite(y) THEN NaN
    ELSE IF IsFinite(x) THEN R(0)
    ELSE <<x[1] * (IF y[1] < 0 THEN -1 ELSE 1), 0>>

\* x > y; every comparison with nan is False
RGt(x, y) ==
    IF IsNaN(x) \/ IsNaN(y) THEN FALSE
    ELSE IF IsFinite(x) /\ IsFinite(y) THEN x[1] * y[2] > y[1] * x[2]
    ELSE IF ~IsFinite(x) /\ ~IsFinite(y) THEN x[1] > y[1]
    ELSE IF IsFinite(x) THEN y[1] < 0 ELSE x[1] > 0

RLe(x, y) == ~IsNaN(x) /\ ~IsNaN(y) /\ ~RGt(x, y)

RECURSIVE RSum(_)
RSum(xs) == IF xs = <<>> THEN R(0) ELSE RAdd(xs[1], RSum(Tail(xs)))

\* np.mean of a one-dimensional array (nan for an empty one)
RMean(xs) == RDiv(RSum(xs), R(Len(xs)))

\* the square root and the confidence are kept in units of 1 / Precision
Precision == 10 * 10

RECURSIVE ISqrtIn(_, _, _)
ISqrtIn(n, lo, hi) ==
    IF lo >= hi THEN lo
    ELSE LET mid == (lo + hi + 1) \div 2
         IN  IF mid * mid <= n THEN ISqrtIn(n, mid, hi) ELSE ISqrtIn(n, lo, mid - 1)

\* the floor of the square root of a natural number
ISqrt(n) == ISqrtIn(n, 0, IF n < 46340 THEN n ELSE 46340)

\* the largest multiple of 1 / Precision that is <= x (x finite)
RFloor(x) ==
    IF ~IsFinite(x) THEN x
    ELSE LET p == Precision
             q == (Abs(x[1]) * p) \div x[2]
             f == IF x[1] >= 0 THEN q
                  ELSE IF q * x[2] = Abs(x[1]) * p THEN -q ELSE -(q + 1)
         IN  Norm(f, p)

\* sqrt(x) in units of 1 / Precision, rounded down, x >= 0
RSqrt(x) ==
    IF ~IsFinite(x) THEN x
    ELSE LET p == Precision
         IN  Norm(ISqrt((x[1] * p * p) \div x[2]), p)

---------------------------------------------------------------------------
(* Datasets.  A record is one row of the DataFrame.  origin and destination *)
(* are strings, kept as the sequence of their '_'-separated tokens; a price *)
(* is a number or a value that is not a number (None, a string).            *)

Range(s) == {s[i] : i \in DOMAIN s}

Num(v) == [num |-> TRUE, v |-> v]

NotANumber == [num |-> FALSE, v |-> 0]

\* (origin, destination) pairs in the order groupby sorts them: the routes
\* A -> B_C, A -> C, A_B -> C and B -> C
RouteKeys ==
    << <<(<<"A">>), (<<"B", "C">>)>>, <<(<<"A">>), (<<"C">>)>>,
       <<(<<"A", "B">>), (<<"C">>)>>, <<(<<"B">>), (<<"C">>)>> >>

\* the routes whose airport codes hold no '_'
PlainRoutes == {k \in Range(RouteKeys) : Len(k[1]) = 1 /\ Len(k[2]) = 1}

\* airlines in the order groupby sorts them
AirlineKeys == <<"AI", "UK">>

\* dates as day numbers of 2024 (day 1 is Monday 1 January)
Dates == {3, 31, 33}

MonthOf(d) == IF d <= 31 THEN 1 ELSE 2

WeekOf(d) == ((d - 1) \div 7) + 1

\* pd.to_datetime(date).dt.to_period(freq)
PeriodOf(freq, d) == IF freq = "M" THEN MonthOf(d) ELSE WeekOf(d)

\* str(period)
PeriodStr(freq, p) == freq \o ToString(p)

\* the list s, with its entries evaluated once
List(s) == <<>> \o s

RECURSIVE SortedSeq(_)
SortedSeq(S) ==
    IF S = {} THEN <<>>
    ELSE LET m == CHOOSE x \in S : \A y \in S : x <= y
         IN  <<m>> \o SortedSeq(S \ {m})

\* the rows of a frame at the positions in keep, in frame order
RECURSIVE Pick(_, _, _)
Pick(rows, keep, i) ==
    IF i > Len(rows) THEN <<>>
    ELSE (IF i \in keep THEN <<rows[i]>> ELSE <<>>) \o Pick(rows, keep, i + 1)

RECURSIVE Flatten(_)
Flatten(ss) == IF ss = <<>> THEN <<>> ELSE ss[1] \o Flatten(Tail(ss))

\* all sequences over S of length 0..n
SeqsUpTo(S, n) == UNION {[1..k -> S] : k \in 0..n}

\* a metadata dict: its keys, and the value under 'size' when it has one
Metadata(keys, size) == [keys |-> keys, size |-> size]

\* {}
EmptyMetadata == Metadata({}, 0)

\* a lookup that takes 0 for a missing size
GetSizeOrZero(metadata, default) ==
    IF "size" \in metadata.keys THEN metadata.size ELSE 0

\* metadata.get('size', default)
GetSize(metadata, default) ==
    IF "size" \in metadata.keys THEN metadata.size ELSE default

\* metadata.update(other)
MetadataUpdate(metadata, other) ==
    Metadata(metadata.keys \cup other.keys,
             IF "size" \in other.keys THEN other.size ELSE metadata.size)

DataSegment(id, data, metadata, type) ==
    [segment_id |-> id, data |-> data, metadata |-> metadata, segment_type |-> type]

\* what a Segmenter method hands back: the list, or the exception it raised,
\* and the columns of the frame it was given as they are afterwards
Segmented(segs, cols) == [segs |-> segs, cols |-> cols, exc |-> ""]

SegmenterRaised(exc, cols) == [segs |-> <<>>, cols |-> cols, exc |-> exc]

\* the exceptions of the engine and of the libraries it calls
UnknownSegmentation == "ValueError: Unknown segmentation strategy"

UnknownMerge == "ValueError: Unknown merge strategy"

IntegerDivisionByZero == "ZeroDivisionError: integer division or modulo by zero"

DivisionByZero == "ZeroDivisionError: division by zero"

KMeansInputError == "ValueError: could not convert string to float"

ConvolveEmpty == "ValueError: v cannot be empty"

ConvolveNotNumeric == "TypeError: unsupported operand type(s)"

WeightsSumToZero == "ZeroDivisionError: Weights sum to zero, can't be normalized"

MaxOfEmpty == "ValueError: zero-size array to reduction operation maximum"

SegmenterErrors == {IntegerDivisionByZero, KMeansInputError}

---------------------------------------------------------------------------
(* DataSegmenter: the DIVIDE phase *)

\* a size test that is off by one
IsLargeEnoughOffByOne(group, mss) == Len(group) + 1 >= mss

\* the size test every strategy applies to a group
IsLargeEnough(group, mss) == Len(group) >= mss

\* groupby yields one group for each key that occurs; keep the large enough
Qualifying(candidates, mss) ==
    SelectSeq(candidates,
              LAMBDA s : Len(s.data) > 0 /\ IsLargeEnough(s.data, mss))

segment_by_route(rows, cols, mss) ==
    LET cand == List([k \in DOMAIN RouteKeys |->
            LET g == SelectSeq(rows, LAMBDA r :
                        <<r.origin, r.destination>> = RouteKeys[k])
            IN  DataSegment(<<"route">> \o RouteKeys[k][1] \o RouteKeys[k][2],
                            g, Metadata({"origin", "destination", "size"}, Len(g)),
                            "route")])
    IN  Segmented(Qualifying(cand, mss), cols)

\* a segment_by_temporal that adds the column with df.insert, which raises
\* when the frame already has it
segment_by_temporal_insert(rows, cols, freq, mss) ==
    IF "period" \in cols THEN SegmenterRaised("ValueError: cannot insert period, already exists",
                                             cols)
    ELSE LET periods == SortedSeq({PeriodOf(freq, r.date) : r \in Range(rows)})
             cand == List([k \in DOMAIN periods |->
                LET g == SelectSeq(rows, LAMBDA r :
                            PeriodOf(freq, r.date) = periods[k])
                IN  DataSegment(<<"temporal", PeriodStr(freq, periods[k])>>,
                                g, Metadata({"period", "size", "date_range"}, Len(g)),
                                "temporal")])
         IN  Segmented(Qualifying(cand, mss), cols \cup {"period"})

segment_by_temporal(rows, cols, freq, mss) ==
    LET periods == SortedSeq({PeriodOf(freq, r.date) : r \in Range(rows)})
        cand == List([k \in DOMAIN periods |->
            LET g == SelectSeq(rows, LAMBDA r : PeriodOf(freq, r.date) = periods[k])
            IN  DataSegment(<<"temporal", PeriodStr(freq, periods[k])>>,
                            g, Metadata({"period", "size", "date_range"}, Len(g)),
                            "temporal")])
    IN  Segmented(Qualifying(cand, mss), cols \cup {"period"})

segment_by_airline(rows, cols, mss) ==
    LET cand == List([k \in DOMAIN AirlineKeys |->
            LET g == SelectSeq(rows, LAMBDA r : r.airline = AirlineKeys[k])
            IN  DataSegment(<<"airline", AirlineKeys[k]>>,
                            g, Metadata({"airline", "size"}, Len(g)), "airline")])
    IN  Segmented(Qualifying(cand, mss), cols)

Min(a, b) == IF a <= b THEN a ELSE b

\* n_clusters = min(5, len(df) // min_segment_size), mss > 0
\* clustering that is never skipped
NClustersAtLeastTwo(n, mss) ==
    IF Min(MaxClusters, n \div mss) < 2 THEN 2 ELSE Min(MaxClusters, n \div mss)

NClusters(n, mss) == Min(MaxClusters, n \div mss)

\* the labelings KMeans.fit_predict may return for n rows and k clusters
Labelings(n, k) == [1..n -> 0..(k - 1)]

\* labels: the cluster KMeans assigned to each row
segment_by_demand_pattern(rows, cols, mss, labels) ==
    IF mss = 0 THEN SegmenterRaised(IntegerDivisionByZero, cols)
    ELSE IF NClusters(Len(rows), mss) < 2 THEN Segmented(<<>>, cols)
    ELSE IF \E r \in Range(rows) : ~r.price.num
         THEN SegmenterRaised(KMeansInputError, cols)
    ELSE LET k == NClusters(Len(rows), mss)
             cand == List([c \in 1..k |->
                LET g == Pick(rows, {i \in DOMAIN rows : labels[i] = c - 1}, 1)
                IN  DataSegment(<<"demand", ToString(c - 1)>>,
                                g, Metadata({"cluster_id", "size", "avg_occupancy"},
                                            Len(g)),
                                "demand_pattern")])
         IN  Segmented(Qualifying(cand, mss), cols \cup {"demand_cluster"})

\* leaves that are kept whatever their size
HierarchicalLeavesKeepSmall(route_segment, mss) ==
    LET temporal == segment_by_temporal(route_segment.data, {}, "W", 0).segs
    IN  List([k \in DOMAIN temporal |->
            DataSegment(route_segment.segment_id \o temporal[k].segment_id,
                        temporal[k].data,
                        MetadataUpdate(temporal[k].metadata, route_segment.metadata),
                        temporal[k].segment_type)])

\* the leaves of one route segment: its own records split by week
HierarchicalLeaves(route_segment, mss) ==
    LET temporal == segment_by_temporal(route_segment.data, {}, "W", mss).segs
    IN  List([k \in DOMAIN temporal |->
            DataSegment(route_segment.segment_id \o temporal[k].segment_id,
                        temporal[k].data,
                        MetadataUpdate(temporal[k].metadata, route_segment.metadata),
                        temporal[k].segment_type)])

\* route segments returned next to their own leaves
hierarchical_segmentation_with_parents(rows, cols, mss) ==
    LET route_segments == segment_by_route(rows, cols, mss).segs
    IN  Segmented(Flatten(List([k \in DOMAIN route_segments |->
                              <<route_segments[k]>>
                                \o HierarchicalLeaves(route_segments[k], mss)])),
                  cols)

hierarchical_segmentation(rows, cols, mss) ==
    LET route_segments == segment_by_route(rows, cols, mss).segs
    IN  Segmented(Flatten(List([k \in DOMAIN route_segments |->
                              HierarchicalLeaves(route_segments[k], mss)])),
                  cols)

---------------------------------------------------------------------------
(* SegmentForecaster: the CONQUER phase.  A forecast method hands back     *)
(* Forecast(v) or, when it raised, Failed.                                  *)

Forecast(v) == [ok |-> TRUE, v |-> v]

Failed == [ok |-> FALSE, v |-> <<>>]

\* np.full(horizon, x)
Full(h, x) == LET v == x IN List([j \in 1..h |-> v])

\* segment.data['price'].values of numeric prices, as floats
PriceValues(rows) == List([i \in DOMAIN rows |-> R(rows[i].price.v)])

AllNumeric(rows) == \A i \in DOMAIN rows : rows[i].price.num

LastN(xs, n) == SubSeq(xs, Len(xs) - Min(Len(xs), n) + 1, Len(xs))

\* ma[-1] of np.convolve(prices, np.ones(window)/window, mode='valid'):
\* convolve swaps its arguments when prices is the shorter one, so ma is
\* never empty and its last entry is the sum of the last min(n, window)
\* prices over window
LastMovingAverage(prices, window) == RDiv(RSum(LastN(prices, window)), R(window))

\* a moving average that takes np.mean(prices), nan, for an empty array
forecast_moving_average_mean_of_empty(rows, h) ==
    IF Len(rows) > 0 /\ ~AllNumeric(rows) THEN Failed
    ELSE IF Len(rows) = 0 THEN Forecast(Full(h, RMean(<<>>)))
    ELSE Forecast(Full(h, LastMovingAverage(PriceValues(rows), MAWindow)))

\* np.convolve raises on an empty array and on values that are not numbers
forecast_moving_average(rows, h) ==
    IF Len(rows) = 0 \/ ~AllNumeric(rows) THEN Failed
    ELSE Forecast(Full(h, LastMovingAverage(PriceValues(rows), MAWindow)))

\* fit: what ARIMA(...).fit().forecast(steps=horizon) gave, or Failed
forecast_arima(rows, h, fit) ==
    IF fit.ok THEN fit ELSE forecast_moving_average(rows, h)

\* fit: what ExponentialSmoothing(...).fit().forecast(steps=horizon) gave
forecast_exponential_smoothing(rows, h, fit) ==
    IF fit.ok THEN fit ELSE forecast_moving_average(rows, h)

\* what a statistical model can do with the prices: fail, or forecast one
\* of the given vectors (it cannot fit no data or data that is not numeric)
ModelOutcomes(rows, vectors) ==
    {Failed} \cup (IF Len(rows) > 0 /\ AllNumeric(rows)
                   THEN {Forecast(v) : v \in vectors} ELSE {})

\* column j of a list of equally long vectors
Column(vectors, j) == List([i \in DOMAIN vectors |-> vectors[i][j]])

\* an average taken without axis=0, which collapses the vectors to one number
NpAverageNoAxis(vectors, weights) ==
    LET scl == RSum(weights)
    IN  IF scl = R(0) THEN Failed
        ELSE Forecast(<<RDiv(RSum(List([i \in DOMAIN vectors |->
                        RMul(RMean(vectors[i]), weights[i])])), scl)>>)

\* np.average(vectors, axis=0, weights=weights); raises ZeroDivisionError
\* when the weights sum to zero (so also for an empty list)
NpAverage(vectors, weights) ==
    LET scl == RSum(weights)
    IN  IF scl = R(0) THEN Failed
        ELSE Forecast(List([j \in DOMAIN vectors[1] |->
                RDiv(RSum(List([i \in DOMAIN vectors |->
                        RMul(vectors[i][j], weights[i])])), scl)]))

\* np.std of a one-dimensional array
Std(xs) ==
    LET m == RMean(xs)
        d == List([i \in DOMAIN xs |-> RSub(xs[i], m)])
    IN  RSqrt(RMean(List([i \in DOMAIN xs |-> RMul(d[i], d[i])])))

\* np.std(forecasts, axis=0).mean()
MeanStd(forecasts) ==
    RMean(List([j \in DOMAIN forecasts[1] |-> Std(Column(forecasts, j))]))

\* a confidence that is not clamped at 0
Max0NoClamp(x) == x

\* max(0, x) of Python: x when x > 0, else 0
Max0(x) == IF RGt(x, R(0)) THEN x ELSE R(0)

\* the confidence of an ensemble of the given member forecasts
Confidence(forecasts, ensemble) ==
    IF Len(forecasts) > 1
    THEN LET std == MeanStd(forecasts)
             mean == RMean(ensemble)
         IN  IF RGt(mean, R(0))
             THEN Max0(RFloor(RSub(R(1), RDiv(std, mean))))
             ELSE <<1, 2>>
    ELSE <<6, 10>>

\* members that all get the static weight of the moving average
TriedMembersEqualWeights(rows, h, arima_fit, es_fit) ==
    LET a == forecast_arima(rows, h, arima_fit)
        e == forecast_exponential_smoothing(rows, h, es_fit)
    IN  (IF a.ok THEN << [f |-> a.v, w |-> <<3, 10>>] >> ELSE <<>>)
        \o (IF e.ok THEN << [f |-> e.v, w |-> <<3, 10>>] >> ELSE <<>>)

\* the members ensemble_forecast collects before the moving average
TriedMembers(rows, h, arima_fit, es_fit) ==
    LET a == forecast_arima(rows, h, arima_fit)
        e == forecast_exponential_smoothing(rows, h, es_fit)
    IN  (IF a.ok THEN << [f |-> a.v, w |-> <<4, 10>>] >> ELSE <<>>)
        \o (IF e.ok THEN << [f |-> e.v, w |-> <<3, 10>>] >> ELSE <<>>)

EnsembleResult(ok, forecast, confidence, members, weights) ==
    [ok |-> ok, forecast |-> forecast, confidence |-> confidence,
     members |-> members, weights |-> weights]

ensemble_forecast(rows, h, arima_fit, es_fit) ==
    LET ma == forecast_moving_average(rows, h)
    IN  IF ~ma.ok THEN EnsembleResult(FALSE, <<>>, NaN, <<>>, <<>>)
        ELSE LET members == TriedMembers(rows, h, arima_fit, es_fit)
                            \o << [f |-> ma.v, w |-> <<3, 10>>] >>
                 forecasts == List([i \in DOMAIN members |-> members[i].f])
                 total == RSum(List([i \in DOMAIN members |-> members[i].w]))
                 weights == List([i \in DOMAIN members |->
                                    RDiv(members[i].w, total)])
                 ensemble == NpAverage(forecasts, weights).v
             IN  EnsembleResult(TRUE, ensemble, Confidence(forecasts, ensemble),
                                forecasts, weights)

---------------------------------------------------------------------------
(* ForecastMerger: the COMBINE phase *)

\* one entry of the list predict hands to the Merger
SegmentForecast(id, forecast, confidence, metadata) ==
    [segment_id |-> id, forecast |-> forecast, confidence |-> confidence,
     metadata |-> metadata]

\* the dict a merge strategy returns, with the weights it applied
Merged(forecast, confidence, n, strategy, keys, weights, groups) ==
    [ok |-> TRUE, exc |-> "", forecast |-> forecast, confidence |-> confidence,
     num_segments |-> n, strategy |-> strategy, keys |-> keys,
     weights |-> weights, num_groups |-> groups]

MergeRaised(exc, weights) ==
    [ok |-> FALSE, exc |-> exc, forecast |-> <<>>, confidence |-> NaN,
     num_segments |-> 0, strategy |-> "", keys |-> {}, weights |-> weights,
     num_groups |-> 0]

\* a maximum that is the first entry of the array
RMaxSeqFirst(xs) == xs[1]

\* a maximum that adds the entries up
RMaxSeqSum(xs) == RSum(xs)

RECURSIVE RMaxSeq(_)
\* np.max of a non-empty array of numbers
RMaxSeq(xs) ==
    IF Len(xs) = 1 THEN xs[1]
    ELSE LET m == RMaxSeq(Tail(xs))
         IN  IF IsNaN(xs[1]) \/ IsNaN(m) THEN NaN
             ELSE IF RGt(m, xs[1]) THEN m ELSE xs[1]

RECURSIVE IntSum(_)
IntSum(ns) == IF ns = <<>> THEN 0 ELSE ns[1] + IntSum(Tail(ns))

\* weights that are the same for every member
ConfidenceWeightsUniform(confidences) ==
    List([i \in DOMAIN confidences |-> Norm(1, Len(confidences))])

\* the weights _confidence_based applies: confidences / confidences.sum()
ConfidenceWeights(confidences) ==
    LET total == RSum(confidences)
    IN  List([i \in DOMAIN confidences |-> RDiv(confidences[i], total)])

_confidence_based(sfs) ==
    LET confidences == List([i \in DOMAIN sfs |-> sfs[i].confidence])
        weights == ConfidenceWeights(confidences)
        forecasts == List([i \in DOMAIN sfs |-> sfs[i].forecast])
        merged == NpAverage(forecasts, weights)
    IN  IF ~merged.ok THEN MergeRaised(WeightsSumToZero, weights)
        ELSE IF Len(confidences) = 0 THEN MergeRaised(MaxOfEmpty, weights)
        ELSE Merged(merged.v, RMaxSeq(confidences), Len(sfs), "confidence_based",
                    {"forecast", "confidence", "num_segments", "strategy",
                     "segment_contributions"}, weights, 0)

_weighted_average(sfs) ==
    LET sizes == List([i \in DOMAIN sfs |-> GetSize(sfs[i].metadata, 1)])
        total_weight == IntSum(sizes)
    IN  IF Len(sfs) > 0 /\ total_weight = 0
        THEN MergeRaised(DivisionByZero, <<>>)
        ELSE LET weights == List([i \in DOMAIN sfs |->
                                    Norm(sizes[i], total_weight)])
                 forecasts == List([i \in DOMAIN sfs |-> sfs[i].forecast])
                 merged == NpAverage(forecasts, weights)
                 avg == NpAverage(List([i \in DOMAIN sfs |->
                                            <<sfs[i].confidence>>]), weights)
             IN  IF ~merged.ok \/ ~avg.ok THEN MergeRaised(WeightsSumToZero, weights)
                 ELSE Merged(merged.v, avg.v[1], Len(sfs), "weighted_average",
                             {"forecast", "confidence", "num_segments", "strategy"},
                             weights, 0)

\* a key made of the first token only
HierarchyKeyTopLevel(id) == SubSeq(id, 1, Min(1, Len(id)))

\* '_'.join(segment_id.split('_')[:2])
HierarchyKey(id) == SubSeq(id, 1, Min(2, Len(id)))

\* the keys of the hierarchy dict, in insertion order
RECURSIVE HierarchyKeys(_, _)
HierarchyKeys(sfs, seen) ==
    IF sfs = <<>> THEN <<>>
    ELSE LET key == HierarchyKey(sfs[1].segment_id)
         IN  IF key \in seen THEN HierarchyKeys(Tail(sfs), seen)
             ELSE <<key>> \o HierarchyKeys(Tail(sfs), seen \cup {key})

_hierarchical_merge(sfs) ==
    LET keys == HierarchyKeys(sfs, {})
        group_forecasts == List([g \in DOMAIN keys |->
            _confidence_based(SelectSeq(sfs, LAMBDA sf :
                                HierarchyKey(sf.segment_id) = keys[g]))])
        final_forecasts == List([g \in DOMAIN keys |-> group_forecasts[g].forecast])
        final_confidences ==
            List([g \in DOMAIN keys |-> group_forecasts[g].confidence])
        total == RSum(final_confidences)
        weights == List([g \in DOMAIN keys |-> RDiv(final_confidences[g], total)])
        merged == NpAverage(final_forecasts, weights)
    IN  IF \E g \in DOMAIN keys : ~group_forecasts[g].ok
        THEN MergeRaised(WeightsSumToZero, <<>>)
        ELSE IF ~merged.ok THEN MergeRaised(WeightsSumToZero, weights)
        ELSE Merged(merged.v, RMean(final_confidences), Len(sfs), "hierarchical",
                    {"forecast", "confidence", "num_segments", "num_groups",
                     "strategy"}, weights, Len(keys))

\* a merge that sorts the list it is given by confidence, in place
InputAfterMergeSorted(sfs, strategy) ==
    IF Len(sfs) = 2 /\ RGt(sfs[1].confidence, sfs[2].confidence)
    THEN <<sfs[2], sfs[1]>> ELSE sfs

\* the caller's list after merge(sfs, strategy): no statement of merge or of
\* a strategy assigns to the list, to a member or to a member's values
InputAfterMerge(sfs, strategy) == sfs

merge(sfs, strategy) ==
    IF strategy = "weighted_average" THEN _weighted_average(sfs)
    ELSE IF strategy = "confidence_based" THEN _confidence_based(sfs)
    ELSE IF strategy = "hierarchical" THEN _hierarchical_merge(sfs)
    ELSE MergeRaised(UnknownMerge, <<>>)

---------------------------------------------------------------------------
(* DivideAndConquerForecaster.predict *)

KnownStrategies == {"route", "temporal", "hierarchical", "demand_pattern"}

BaseColumns == {"origin", "destination", "airline", "date", "price",
                "days_to_departure", "occupancy_rate"}

NoResult ==
    [kind |-> "none", exc |-> "", forecast |-> <<>>, confidence |-> NaN,
     strategy |-> "", num_segments |-> 0, keys |-> {},
     segmentation_strategy |-> ""]

\* the dict predict returns; segmentation_strategy counts only when it is a key
Returned(forecast, confidence, strategy, n, keys, requested) ==
    [kind |-> "returned", exc |-> "", forecast |-> forecast,
     confidence |-> confidence, strategy |-> strategy, num_segments |-> n,
     keys |-> keys,
     segmentation_strategy |->
        IF "segmentation_strategy" \in keys THEN requested ELSE ""]

Raised(exc) == [NoResult EXCEPT !.kind = "raised", !.exc = exc]

\* ndarray.tolist()
ToList(v) == List([j \in DOMAIN v |-> v[j]])

\* the exception with which forecast_moving_average ends on these rows
ForecastError(rows) == IF Len(rows) = 0 THEN ConvolveEmpty ELSE ConvolveNotNumeric

\* the labelings among which KMeans picks, when the method gets to KMeans
DemandLabelings(rows, mss) ==
    IF mss > 0 /\ NClusters(Len(rows), IF mss > 0 THEN mss ELSE 1) >= 2
       /\ AllNumeric(rows)
    THEN Labelings(Len(rows), NClusters(Len(rows), mss))
    ELSE {<<>>}

\* the Segmenter method predict dispatches to
Dispatch(strategy, rows, cols, mss, labels) ==
    IF strategy = "route" THEN segment_by_route(rows, cols, mss)
    ELSE IF strategy = "temporal" THEN segment_by_temporal(rows, cols, "M", mss)
    ELSE IF strategy = "hierarchical" THEN hierarchical_segmentation(rows, cols, mss)
    ELSE segment_by_demand_pattern(rows, cols, mss, labels)

\* a zero-segment test that never sends predict down the zero-segment path
NoSegmentsNever(segs) == FALSE

\* if not segments
NoSegments(segs) == segs = <<>>

\* the strategy predict asks the Merger for
CombineStrategy == "confidence_based"

\* a predict that merges right after DIVIDE, without forecasting the segments
AfterDivideSkipsConquer(segs) ==
    IF NoSegments(segs) THEN "FALLBACK" ELSE "COMBINE"

\* where predict goes with the list the Segmenter returned: the zero-segment
\* path, or the loop over the segments (which an empty list ends at once)
AfterDivide(segs) ==
    IF NoSegments(segs) THEN "FALLBACK"
    ELSE IF Len(segs) = 0 THEN "COMBINE" ELSE "CONQUER"

\* a loop body that pads a failed segment with a placeholder forecast
AfterSegmentPadding(sfs, segment, r) ==
    Append(sfs, SegmentForecast(segment.segment_id,
                                IF r.ok THEN r.forecast ELSE Full(1, R(0)),
                                IF r.ok THEN r.confidence ELSE R(0),
                                segment.metadata))

\* a loop body in which a failure discards the forecasts collected so far
AfterSegmentAbort(sfs, segment, r) ==
    IF r.ok
    THEN Append(sfs, SegmentForecast(segment.segment_id, r.forecast,
                                     r.confidence, segment.metadata))
    ELSE <<>>

\* the body of the CONQUER loop: a forecast is appended, a failure is logged
AfterSegment(sfs, segment, r) ==
    IF r.ok
    THEN Append(sfs, SegmentForecast(segment.segment_id, r.forecast,
                                     r.confidence, segment.metadata))
    ELSE sfs

\* the result of the zero-segment path
GlobalResult(r, rows) ==
    IF r.ok
    THEN Returned(ToList(r.forecast), r.confidence, "global", 0,
                  {"forecast", "confidence", "strategy", "num_segments"}, "")
    ELSE Raised(ForecastError(rows))

\* the result of the merged path
MergedResult(m, requested) ==
    IF m.ok
    THEN Returned(ToList(m.forecast), m.confidence, m.strategy, m.num_segments,
                  m.keys \cup {"segmentation_strategy"}, requested)
    ELSE Raised(m.exc)

NoCalls == [segmenter |-> 0, forecaster |-> 0, merger |-> 0]

NoEnsemble ==
    [called |-> FALSE, arima_failed |-> FALSE, es_failed |-> FALSE,
     arima_fit |-> Failed, es_fit |-> Failed,
     out |-> EnsembleResult(FALSE, <<>>, NaN, <<>>, <<>>)]

NoMerge ==
    [called |-> FALSE, asked |-> "", given |-> <<>>, out |-> MergeRaised("", <<>>)]

\* a seed that is not used: every choice is made at the call
NoSeed == [labels |-> <<>>, arima_needs |-> 0, es_needs |-> 0]

\* the forecasts the two statistical models give in a predict run
ArimaVectors(h) == {Full(h, R(4))}

EsVectors(h) == {Full(h, R(-2))}

PipelineRecords ==
    {[origin |-> k[1], destination |-> k[2], airline |-> "AI", date |-> d,
      price |-> p] :
        k \in PlainRoutes, d \in {3, 33}, p \in {Num(1), NotANumber}}

Init ==
    /\ df \in SeqsUpTo(PipelineRecords, MaxRecords)
    /\ columns = BaseColumns
    /\ min_segment_size \in 1..MaxMinSegmentSize
    /\ horizon \in {1, MaxHorizon}
    /\ segmentation_strategy \in KnownStrategies \cup {"airline"}
    /\ pc = "DIVIDE"
    /\ segments = <<>>
    /\ idx = 1
    /\ segment_forecasts = <<>>
    /\ result = NoResult
    /\ calls = NoCalls
    /\ outcomes = <<>>
    /\ ensemble_call = NoEnsemble
    /\ merge_call = NoMerge
    /\ runs = <<>>
    /\ seed = NoSeed

\* Phase 1: DIVIDE
Divide ==
    /\ pc = "DIVIDE"
    /\ IF segmentation_strategy \notin KnownStrategies
       THEN /\ result' = Raised(UnknownSegmentation)
            /\ pc' = "DONE"
            /\ UNCHANGED <<columns, segments, calls>>
       ELSE \E labels \in DemandLabelings(df, min_segment_size) :
              LET s == Dispatch(segmentation_strategy, df, columns,
                                min_segment_size, labels)
              IN  /\ columns' = s.cols
                  /\ calls' = [calls EXCEPT !.segmenter = @ + 1]
                  /\ segments' = s.segs
                  /\ result' = IF s.exc # "" THEN Raised(s.exc) ELSE result
                  /\ pc' = IF s.exc # "" THEN "DONE"
                           ELSE AfterDivide(s.segs)
    /\ UNCHANGED <<runs, seed, df, min_segment_size, horizon, segmentation_strategy, idx,
                   segment_forecasts, outcomes, ensemble_call,
                   merge_call>>

\* no segments: one forecast of the whole dataset, returned as it is
Fallback ==
    /\ pc = "FALLBACK"
    /\ \E a \in ModelOutcomes(df, ArimaVectors(horizon)),
          e \in ModelOutcomes(df, EsVectors(horizon)) :
          result' = GlobalResult(ensemble_forecast(df, horizon, a, e), df)
    /\ calls' = [calls EXCEPT !.forecaster = @ + 1]
    /\ pc' = "DONE"
    /\ UNCHANGED <<runs, seed, df, columns, min_segment_size, horizon,
                   segmentation_strategy,
                   segments, idx, segment_forecasts, outcomes, ensemble_call,
                   merge_call>>

\* Phase 2: CONQUER, one iteration of the loop over the segments
Conquer ==
    /\ pc = "CONQUER"
    /\ idx <= Len(segments)
    /\ \E a \in ModelOutcomes(segments[idx].data, ArimaVectors(horizon)),
          e \in ModelOutcomes(segments[idx].data, EsVectors(horizon)) :
          LET r == ensemble_forecast(segments[idx].data, horizon, a, e)
          IN  /\ segment_forecasts' = AfterSegment(segment_forecasts, segments[idx], r)
              /\ outcomes' = Append(outcomes, r.ok)
    /\ calls' = [calls EXCEPT !.forecaster = @ + 1]
    /\ idx' = idx + 1
    /\ pc' = IF idx = Len(segments) THEN "COMBINE" ELSE "CONQUER"
    /\ UNCHANGED <<runs, seed, df, columns, min_segment_size, horizon,
                   segmentation_strategy,
                   segments, result, ensemble_call, merge_call>>

\* Phase 3: COMBINE
Combine ==
    /\ pc = "COMBINE"
    /\ \E m \in {merge(segment_forecasts, CombineStrategy)} :
          /\ result' = MergedResult(m, segmentation_strategy)
          /\ merge_call' = [called |-> TRUE, asked |-> CombineStrategy,
                            given |-> segment_forecasts, out |-> m]
    /\ segment_forecasts' = InputAfterMerge(segment_forecasts, CombineStrategy)
    /\ calls' = [calls EXCEPT !.merger = @ + 1]
    /\ pc' = "DONE"
    /\ UNCHANGED <<runs, seed, df, columns, min_segment_size, horizon,
                   segmentation_strategy, segments, idx, outcomes, ensemble_call>>

Next == Divide \/ Fallback \/ Conquer \/ Combine

Spec == Init /\ [][Next]_vars

---------------------------------------------------------------------------
(* predict called twice on the same dataset object.  The clustering has a   *)
(* fixed random_state and the models are functions of the prices they get:  *)
(* the seed holds the labels KMeans gives the dataset and the number of     *)
(* observations each statistical model needs to fit.                        *)

\* what a statistical model makes of the prices under the seed
SeededFit(rows, needs, vectors) ==
    IF Len(rows) >= needs /\ Len(rows) > 0 /\ AllNumeric(rows)
    THEN Forecast(CHOOSE v \in vectors : TRUE)
    ELSE Failed

SeededEnsemble(rows, h, sd) ==
    ensemble_forecast(rows, h,
                      SeededFit(rows, sd.arima_needs, ArimaVectors(h)),
                      SeededFit(rows, sd.es_needs, EsVectors(h)))

\* the CONQUER loop over the segments, from the list collected so far
RECURSIVE ConquerAll(_, _, _, _)
ConquerAll(sfs, segs, h, sd) ==
    IF segs = <<>> THEN sfs
    ELSE ConquerAll(AfterSegment(sfs, segs[1], SeededEnsemble(segs[1].data, h, sd)),
                    Tail(segs), h, sd)

\* one call of predict: what it returns or raises, and the columns of the
\* caller's dataset afterwards
predict(rows, cols, h, strategy, mss, sd) ==
    IF strategy \notin KnownStrategies
    THEN [result |-> Raised(UnknownSegmentation), cols |-> cols]
    ELSE LET s == Dispatch(strategy, rows, cols, mss, sd.labels)
         IN  IF s.exc # "" THEN [result |-> Raised(s.exc), cols |-> s.cols]
             ELSE IF AfterDivide(s.segs) = "FALLBACK"
             THEN [result |-> GlobalResult(SeededEnsemble(rows, h, sd), rows),
                   cols |-> s.cols]
             ELSE [result |->
                        MergedResult(merge(ConquerAll(<<>>, s.segs, h, sd),
                                           "confidence_based"), strategy),
                   cols |-> s.cols]

\* the seeds of a dataset: the labelling of its rows, and for each model the
\* number of observations from which it fits (more than any segment has:
\* it never fits)
Seeds(rows, strategy, mss) ==
    {[labels |-> l, arima_needs |-> a, es_needs |-> e] :
        l \in (IF strategy = "demand_pattern" THEN DemandLabelings(rows, mss)
               ELSE {<<>>}),
        a \in 1..(MaxRecords + 1),
        e \in {1, MaxRecords + 1}}

\* the rows of the datasets predict is called on twice: numeric prices, and
\* one row whose price is not a number
RerunRecords ==
    {r \in PipelineRecords :
        r.price.num \/ (r.origin = <<"A">> /\ r.date = 3)}

RerunInit ==
    /\ df \in SeqsUpTo(RerunRecords, MaxRecords)
    /\ columns = BaseColumns
    /\ min_segment_size \in 1..MaxMinSegmentSize
    /\ horizon = MaxHorizon
    /\ segmentation_strategy \in KnownStrategies
    /\ pc = "CALL"
    /\ segments = <<>>
    /\ idx = 1
    /\ segment_forecasts = <<>>
    /\ result = NoResult
    /\ calls = NoCalls
    /\ outcomes = <<>>
    /\ ensemble_call = NoEnsemble
    /\ merge_call = NoMerge
    /\ runs = <<>>
    /\ seed \in Seeds(df, segmentation_strategy, min_segment_size)

\* predict is called on the dataset object, the first or the second time
CallPredict ==
    /\ pc = "CALL"
    /\ \E out \in {predict(df, columns, horizon, segmentation_strategy,
                            min_segment_size, seed)} :
           /\ result' = out.result
           /\ columns' = out.cols
           /\ runs' = Append(runs, out.result)
    /\ pc' = IF runs = <<>> THEN "CALL" ELSE "DONE"
    /\ UNCHANGED <<df, min_segment_size, horizon, segmentation_strategy, segments,
                   idx, segment_forecasts, calls, outcomes, ensemble_call,
                   merge_call, seed>>

RerunNext == CallPredict

SpecRerun == RerunInit /\ [][RerunNext]_vars

---------------------------------------------------------------------------
(* The Segmenter called on its own: each of the five methods on a dataset *)

SegmenterRecords ==
    {[origin |-> k[1], destination |-> k[2], airline |-> a, date |-> d,
      price |-> Num(1)] :
        k \in PlainRoutes, a \in Range(AirlineKeys), d \in {3, 33}}

SegmenterInit ==
    /\ df \in SeqsUpTo(SegmenterRecords, MaxSegmenterRecords)
    /\ columns = BaseColumns
    /\ min_segment_size \in 0..MaxMinSegmentSize
    /\ horizon = 1
    /\ segmentation_strategy = ""
    /\ pc = "CALL"
    /\ segments = <<>>
    /\ idx = 1
    /\ segment_forecasts = <<>>
    /\ result = NoResult
    /\ calls = NoCalls
    /\ outcomes = <<>>
    /\ ensemble_call = NoEnsemble
    /\ merge_call = NoMerge
    /\ runs = <<>>
    /\ seed = NoSeed

\* the caller gets the list s.segs, or the exception s.exc
SegmenterReturns(method, s) ==
    /\ pc = "CALL"
    /\ segmentation_strategy' = method
    /\ segments' = s.segs
    /\ columns' = s.cols
    /\ result' = IF s.exc # "" THEN Raised(s.exc) ELSE result
    /\ calls' = [calls EXCEPT !.segmenter = @ + 1]
    /\ pc' = "RETURNED"
    /\ UNCHANGED <<runs, seed, df, min_segment_size, horizon, idx, segment_forecasts,
                   outcomes, ensemble_call, merge_call>>

CallSegmentByRoute ==
    SegmenterReturns("route", segment_by_route(df, columns, min_segment_size))

CallSegmentByTemporal ==
    \E freq \in {"W", "M"} :
        SegmenterReturns("temporal",
                         segment_by_temporal(df, columns, freq, min_segment_size))

CallSegmentByAirline ==
    SegmenterReturns("airline", segment_by_airline(df, columns, min_segment_size))

CallSegmentByDemandPattern ==
    \E labels \in DemandLabelings(df, min_segment_size) :
        SegmenterReturns("demand_pattern",
                         segment_by_demand_pattern(df, columns, min_segment_size,
                                                   labels))

CallHierarchicalSegmentation ==
    SegmenterReturns("hierarchical",
                     hierarchical_segmentation(df, columns, min_segment_size))

SegmenterNext ==
    \/ CallSegmentByRoute
    \/ CallSegmentByTemporal
    \/ CallSegmentByAirline
    \/ CallSegmentByDemandPattern
    \/ CallHierarchicalSegmentation

SpecSegmenter == SegmenterInit /\ [][SegmenterNext]_vars

---------------------------------------------------------------------------
(* The Segment Forecaster called on its own: ensemble_forecast on one       *)
(* segment, for every outcome of the two statistical models                 *)

PriceRecords ==
    {[origin |-> <<"A">>, destination |-> <<"C">>, airline |-> "AI", date |-> 3,
      price |-> p] : p \in {Num(1), Num(3), NotANumber}}

\* the vectors a statistical model may forecast
ModelVectors(h) == [1..h -> {R(-2), R(0), R(4)}]

EnsembleInit ==
    /\ df \in SeqsUpTo(PriceRecords, MaxPrices)
    /\ columns = BaseColumns
    /\ min_segment_size = 1
    /\ horizon \in {1, MaxHorizon}
    /\ segmentation_strategy = ""
    /\ pc = "CALL"
    /\ segments = <<>>
    /\ idx = 1
    /\ segment_forecasts = <<>>
    /\ result = NoResult
    /\ calls = NoCalls
    /\ outcomes = <<>>
    /\ ensemble_call = NoEnsemble
    /\ merge_call = NoMerge
    /\ runs = <<>>
    /\ seed = NoSeed

CallEnsembleForecast ==
    /\ pc = "CALL"
    /\ \E a \in ModelOutcomes(df, ModelVectors(horizon)),
          e \in ModelOutcomes(df, ModelVectors(horizon)) :
          ensemble_call' = [called |-> TRUE, arima_failed |-> ~a.ok,
                            es_failed |-> ~e.ok, arima_fit |-> a, es_fit |-> e,
                            out |-> ensemble_forecast(df, horizon, a, e)]
    /\ calls' = [calls EXCEPT !.forecaster = @ + 1]
    /\ pc' = "RETURNED"
    /\ UNCHANGED <<runs, seed, df, columns, min_segment_size, horizon,
                   segmentation_strategy,
                   segments, idx, segment_forecasts, result, outcomes, merge_call>>

EnsembleNext == CallEnsembleForecast

SpecEnsemble == EnsembleInit /\ [][EnsembleNext]_vars

---------------------------------------------------------------------------
(* The Merger called on its own: merge on a list of segment forecasts *)

MergeStrategies == {"weighted_average", "confidence_based", "hierarchical"}

\* the segment forecasts of one horizon among which the lists are drawn
MergeEntries(h) ==
    {SegmentForecast(<<"route">> \o k[1] \o k[2], Full(h, v), c, m) :
        k \in PlainRoutes, v \in {R(1), R(3)},
        c \in {R(0), <<1, 2>>, R(1)},
        m \in {EmptyMetadata, Metadata({"size"}, 2)}}

MergerInit ==
    /\ df = <<>>
    /\ columns = BaseColumns
    /\ min_segment_size = 1
    /\ horizon \in {1, MaxHorizon}
    /\ segmentation_strategy = ""
    /\ pc = "CALL"
    /\ segments = <<>>
    /\ idx = 1
    /\ segment_forecasts \in SeqsUpTo(MergeEntries(horizon), MaxMembers)
    /\ result = NoResult
    /\ calls = NoCalls
    /\ outcomes = <<>>
    /\ ensemble_call = NoEnsemble
    /\ merge_call = NoMerge
    /\ runs = <<>>
    /\ seed = NoSeed

CallMerge ==
    /\ pc = "CALL"
    /\ \E strategy \in MergeStrategies \cup {"median"} :
          /\ merge_call' = [called |-> TRUE, asked |-> strategy,
                            given |-> segment_forecasts,
                            out |-> merge(segment_forecasts, strategy)]
          /\ segment_forecasts' = InputAfterMerge(segment_forecasts, strategy)
    /\ calls' = [calls EXCEPT !.merger = @ + 1]
    /\ pc' = "RETURNED"
    /\ UNCHANGED <<runs, seed, df, columns, min_segment_size, horizon,
                   segmentation_strategy, segments, idx, result, outcomes,
                   ensemble_call>>

MergerNext == CallMerge

SpecMerger == MergerInit /\ [][MergerNext]_vars

---------------------------------------------------------------------------
(* The Segmenter called on datasets whose airport codes may hold a '_' *)

RouteRecords ==
    {[origin |-> k[1], destination |-> k[2], airline |-> "AI", date |-> 3,
      price |-> Num(1)] : k \in Range(RouteKeys)}

RoutesInit ==
    /\ df \in SeqsUpTo(RouteRecords, MaxSegmenterRecords)
    /\ columns = BaseColumns
    /\ min_segment_size \in 0..MaxMinSegmentSize
    /\ horizon = 1
    /\ segmentation_strategy = ""
    /\ pc = "CALL"
    /\ segments = <<>>
    /\ idx = 1
    /\ segment_forecasts = <<>>
    /\ result = NoResult
    /\ calls = NoCalls
    /\ outcomes = <<>>
    /\ ensemble_call = NoEnsemble
    /\ merge_call = NoMerge
    /\ runs = <<>>
    /\ seed = NoSeed

SpecRoutes == RoutesInit /\ [][SegmenterNext]_vars

---------------------------------------------------------------------------
(* Route and hierarchical segmentation of datasets of several routes and   *)
(* weeks, and the hierarchical merge of the forecasts of their segments    *)

HierarchyRecords ==
    {[origin |-> k[1], destination |-> k[2], airline |-> "AI", date |-> d,
      price |-> Num(1)] : k \in Range(RouteKeys), d \in {3, 33}}

\* the statistical models do not fit series as short as these
ShortSeriesSeed ==
    [labels |-> <<>>, arima_needs |-> MaxSegmenterRecords + 1,
     es_needs |-> MaxSegmenterRecords + 1]

HierarchyInit ==
    /\ df \in SeqsUpTo(HierarchyRecords, MaxSegmenterRecords)
    /\ columns = BaseColumns
    /\ min_segment_size \in 0..MaxMinSegmentSize
    /\ horizon = 1
    /\ segmentation_strategy = ""
    /\ pc = "CALL"
    /\ segments = <<>>
    /\ idx = 1
    /\ segment_forecasts = <<>>
    /\ result = NoResult
    /\ calls = NoCalls
    /\ outcomes = <<>>
    /\ ensemble_call = NoEnsemble
    /\ merge_call = NoMerge
    /\ runs = <<>>
    /\ seed = ShortSeriesSeed

\* every returned segment is forecast and the forecasts are handed to
\* merge with strategy 'hierarchical'
MergeSegmentForecasts ==
    /\ pc = "RETURNED"
    /\ \E sfs \in {ConquerAll(<<>>, segments, horizon, seed)} :
        \E m \in {merge(sfs, "hierarchical")} :
          /\ merge_call' = [called |-> TRUE, asked |-> "hierarchical",
                            given |-> sfs, out |-> m]
          /\ segment_forecasts' = InputAfterMerge(sfs, "hierarchical")
    /\ calls' = [calls EXCEPT !.forecaster = @ + Len(segments),
                              !.merger = @ + 1]
    /\ pc' = "MERGED"
    /\ UNCHANGED <<runs, seed, df, columns, min_segment_size, horizon,
                   segmentation_strategy, segments, idx, result, outcomes,
                   ensemble_call>>

HierarchyNext ==
    \/ CallSegmentByRoute
    \/ CallHierarchicalSegmentation
    \/ MergeSegmentForecasts

SpecHierarchy == HierarchyInit /\ [][HierarchyNext]_vars

---------------------------------------------------------------------------
(* Demand-pattern segmentation with the labels of the clustering recorded  *)

\* n records that differ in their price
DemandRecords(n) ==
    [i \in 1..n |-> [origin |-> <<"A">>, destination |-> <<"C">>,
                     airline |-> "AI", date |-> 3, price |-> Num(i)]]

DemandInit ==
    /\ df \in {DemandRecords(n) : n \in 0..(2 * MaxMinSegmentSize)}
    /\ columns = BaseColumns
    /\ min_segment_size \in 0..MaxMinSegmentSize
    /\ horizon = 1
    /\ segmentation_strategy = ""
    /\ pc = "CALL"
    /\ segments = <<>>
    /\ idx = 1
    /\ segment_forecasts = <<>>
    /\ result = NoResult
    /\ calls = NoCalls
    /\ outcomes = <<>>
    /\ ensemble_call = NoEnsemble
    /\ merge_call = NoMerge
    /\ runs = <<>>
    /\ seed \in {[NoSeed EXCEPT !.labels = l] :
                    l \in DemandLabelings(df, min_segment_size)}

\* segment_by_demand_pattern with the labels fit_predict returns
ClusterByDemandPattern ==
    SegmenterReturns("demand_pattern",
                     segment_by_demand_pattern(df, columns, min_segment_size,
                                               seed.labels))

DemandNext == ClusterByDemandPattern

SpecDemand == DemandInit /\ [][DemandNext]_vars

---------------------------------------------------------------------------
(* predict on a dataset and on the same records in another row order       *)

\* datasets of one route with more records than the moving-average window;
\* the i-th row is dated day i
OrderDatasets ==
    {[i \in 1..(MAWindow + 1) |->
        [origin |-> <<"A">>, destination |-> <<"C">>, airline |-> "AI",
         date |-> i, price |-> Num(v[i])]] :
        v \in [1..(MAWindow + 1) -> {1, 3}]}

\* the statistical models fit every series, or none
OrderSeeds ==
    {NoSeed, [labels |-> <<>>, arima_needs |-> MAWindow + 2,
              es_needs |-> MAWindow + 2]}

OrderInit ==
    /\ df \in OrderDatasets
    /\ columns = BaseColumns
    /\ min_segment_size = 1
    /\ horizon = 1
    /\ segmentation_strategy \in {"route", "airline"}
    /\ pc = "CALL"
    /\ segments = <<>>
    /\ idx = 1
    /\ segment_forecasts = <<>>
    /\ result = NoResult
    /\ calls = NoCalls
    /\ outcomes = <<>>
    /\ ensemble_call = NoEnsemble
    /\ merge_call = NoMerge
    /\ runs = <<>>
    /\ seed \in OrderSeeds

\* the rows i and j of the dataset exchanged
Swapped(rows, i, j) ==
    [k \in DOMAIN rows |-> IF k = i THEN rows[j] ELSE IF k = j THEN rows[i]
                                                  ELSE rows[k]]

\* predict is called a second time, on the same records with two rows
\* exchanged
PredictReordered ==
    /\ pc = "CALL"
    /\ Len(runs) = 1
    /\ \E i, j \in DOMAIN df :
        /\ i < j
        /\ df' = Swapped(df, i, j)
        /\ \E out \in {predict(Swapped(df, i, j), columns, horizon,
                                 segmentation_strategy, min_segment_size, seed)} :
               /\ result' = out.result
               /\ columns' = out.cols
               /\ runs' = Append(runs, out.result)
    /\ pc' = "DONE"
    /\ UNCHANGED <<min_segment_size, horizon, segmentation_strategy, segments,
                   idx, segment_forecasts, calls, outcomes, ensemble_call,
                   merge_call, seed>>

OrderNext ==
    \/ CallPredict
    \/ PredictReordered

SpecOrder == OrderInit /\ [][OrderNext]_vars

---------------------------------------------------------------------------
(* The five segmentation methods on datasets whose records differ in       *)
(* route, airline and week                                                 *)

PartitionRecords ==
    {[origin |-> <<"A">>, destination |-> <<"C">>, airline |-> AirlineKeys[1],
      date |-> 3, price |-> Num(1)],
     [origin |-> <<"A">>, destination |-> <<"C">>, airline |-> AirlineKeys[2],
      date |-> 33, price |-> Num(1)],
     [origin |-> <<"B">>, destination |-> <<"C">>, airline |-> AirlineKeys[1],
      date |-> 33, price |-> Num(1)],
     [origin |-> <<"B">>, destination |-> <<"C">>, airline |-> AirlineKeys[2],
      date |-> 3, price |-> Num(1)]}

PartitionInit ==
    /\ df \in SeqsUpTo(PartitionRecords, MaxSegmenterRecords)
    /\ columns = BaseColumns
    /\ min_segment_size \in 0..MaxMinSegmentSize
    /\ horizon = 1
    /\ segmentation_strategy = ""
    /\ pc = "CALL"
    /\ segments = <<>>
    /\ idx = 1
    /\ segment_forecasts = <<>>
    /\ result = NoResult
    /\ calls = NoCalls
    /\ outcomes = <<>>
    /\ ensemble_call = NoEnsemble
    /\ merge_call = NoMerge
    /\ runs = <<>>
    /\ seed = NoSeed

SpecPartition == PartitionInit /\ [][SegmenterNext]_vars

---------------------------------------------------------------------------
(* Properties *)

Returns == pc = "DONE" /\ result.kind = "returned"

Raises == pc = "DONE" /\ result.kind = "raised"

\* the records held by the returned segments, counted
RECURSIVE HeldRecords(_)
HeldRecords(segs) ==
    IF segs = <<>> THEN 0 ELSE Len(segs[1].data) + HeldRecords(Tail(segs))

\* C1: under every strategy, every Segment the Segmenter returns holds at
\* least min_segment_size records and is not empty
C1_SegmentsAreLargeEnough ==
    \A i \in DOMAIN segments :
        /\ Len(segments[i].data) >= min_segment_size
        /\ Len(segments[i].data) > 0

\* a hierarchical run that dropped a group below the threshold and kept another
C1_Witness ==
    /\ pc = "RETURNED"
    /\ segmentation_strategy = "hierarchical"
    /\ min_segment_size = 2
    /\ segments # <<>>
    /\ HeldRecords(segments) < Len(df)

\* C2: every result predict returns, merged or zero-segment path, carries a
\* forecast vector whose length is the requested horizon
C2_ForecastLengthIsHorizon ==
    Returns => Len(result.forecast) = horizon

\* a merged result of two segments for the longest horizon
C2_Witness ==
    /\ Returns
    /\ result.num_segments = 2
    /\ horizon = MaxHorizon
    /\ Len(result.forecast) = MaxHorizon

\* the Segmenter was called and returned a list (it did not raise)
SegmenterReturned ==
    /\ calls.segmenter = 1
    /\ ~(result.kind = "raised" /\ result.exc \in SegmenterErrors
         /\ calls.forecaster = 0 /\ calls.merger = 0)

\* the results the zero-segment path can give: one forecast of the whole dataset
WholeDatasetResults ==
    {GlobalResult(ensemble_forecast(df, horizon, a, e), df) :
        a \in ModelOutcomes(df, ArimaVectors(horizon)),
        e \in ModelOutcomes(df, EsVectors(horizon))}

\* C3: when the Segmenter returns zero segments for a non-empty dataset,
\* predict runs the Segment Forecaster exactly once, on the whole dataset,
\* never invokes the Merger, and returns that forecast with num_segments = 0
\* (for a dataset of fewer than min_segment_size records this is the only path)
C3_ZeroSegmentsFallback ==
    /\ (SegmenterReturned /\ Len(df) > 0 /\ Len(df) < min_segment_size)
            => segments = <<>>
    /\ (SegmenterReturned /\ Len(df) > 0 /\ segments = <<>>) =>
        /\ pc \in {"FALLBACK", "DONE"}
        /\ calls.merger = 0
        /\ pc = "FALLBACK" => calls.forecaster = 0
        /\ pc = "DONE" =>
            /\ calls.forecaster = 1
            /\ result \in WholeDatasetResults
            /\ AllNumeric(df) => result.kind = "returned"
            /\ result.kind = "returned" =>
                /\ result.num_segments = 0
                /\ Len(result.forecast) = horizon

\* two records on different routes, none of which reaches the threshold of 2
C3_Witness ==
    /\ Returns
    /\ Len(df) = 2
    /\ min_segment_size = 2
    /\ segmentation_strategy = "route"
    /\ segments = <<>>
    /\ calls = [segmenter |-> 1, forecaster |-> 1, merger |-> 0]
    /\ result.num_segments = 0

\* C4: every result predict returns carries the requested strategy under
\* segmentation_strategy, on the merged path and on the zero-segment path
C4_ResultCarriesSegmentationStrategy ==
    Returns =>
        /\ "segmentation_strategy" \in result.keys
        /\ result.segmentation_strategy = segmentation_strategy

\* C5: if both statistical models fail for a segment with at least one
\* observation, ensemble_forecast returns the moving-average forecast alone,
\* with confidence exactly 0.6
C5_BothModelsFailGivesConfidence06 ==
    (/\ ensemble_call.called
     /\ ensemble_call.arima_failed
     /\ ensemble_call.es_failed
     /\ Len(df) >= 1
     /\ AllNumeric(df)) =>
        /\ ensemble_call.out.ok
        /\ ensemble_call.out.forecast = forecast_moving_average(df, horizon).v
        /\ ensemble_call.out.confidence = <<6, 10>>

\* C6: a segment forecast with two or more ensemble members has its
\* confidence in [0, 1], whatever the member vectors are
C6_ConfidenceInUnitInterval ==
    (/\ ensemble_call.called
     /\ ensemble_call.out.ok
     /\ Len(ensemble_call.out.members) >= 2) =>
        /\ RLe(R(0), ensemble_call.out.confidence)
        /\ RLe(ensemble_call.out.confidence, R(1))

\* the members disagree by more than the (positive) ensemble mean
C6_Witness ==
    /\ ensemble_call.called
    /\ ensemble_call.out.ok
    /\ Len(ensemble_call.out.members) >= 2
    /\ RGt(RMean(ensemble_call.out.forecast), R(0))
    /\ RGt(MeanStd(ensemble_call.out.members), RMean(ensemble_call.out.forecast))
    /\ ensemble_call.out.confidence = R(0)

\* C7: for every non-empty list with confidences in [0, 1], the weights
\* weighted_average and confidence_based apply are well defined and sum to 1
C7_MergeWeightsSumToOne ==
    (/\ merge_call.called
     /\ merge_call.asked \in {"weighted_average", "confidence_based"}
     /\ Len(segment_forecasts) >= 1) =>
        /\ Len(merge_call.out.weights) = Len(segment_forecasts)
        /\ \A i \in DOMAIN merge_call.out.weights :
                IsFinite(merge_call.out.weights[i])
        /\ RSum(merge_call.out.weights) = R(1)

\* C8: with no records in the dataset, predict ends in a failure and never
\* returns a forecast result, whatever the strategy
C8_EmptyDatasetFails ==
    Len(df) = 0 =>
        /\ result.kind # "returned"
        /\ pc = "DONE" => result.kind = "raised"

\* an empty dataset went down the zero-segment path and the forecaster raised
C8_Witness ==
    /\ Len(df) = 0
    /\ Raises
    /\ segmentation_strategy = "demand_pattern"
    /\ calls.forecaster = 1
    /\ result.exc = ConvolveEmpty

\* every segment's forecast failed in CONQUER
AllSegmentsFailed ==
    /\ Len(segments) >= 1
    /\ Len(outcomes) = Len(segments)
    /\ \A i \in DOMAIN outcomes : ~outcomes[i]

\* C9: if the Segmenter returned segments and every segment's forecast failed,
\* predict ends in a failure; it returns no result at all
C9_AllSegmentsFailedIsFailure ==
    AllSegmentsFailed =>
        /\ result.kind # "returned"
        /\ pc = "DONE" => result.kind = "raised"

\* two segments, both failed, and the Merger's exception reached the caller
C9_Witness ==
    /\ AllSegmentsFailed
    /\ Len(segments) = 2
    /\ Raises
    /\ calls.merger = 1

\* the segments that were forecast, in order
Forecasted == Pick(segments, {i \in DOMAIN outcomes : outcomes[i]}, 1)

\* C10: a failure in CONQUER removes only the failed segment: every segment
\* is tried, the Merger's input holds exactly the segments that were forecast,
\* and num_segments is their number
C10_FailureDropsOnlyThatSegment ==
    /\ pc = "CONQUER" =>
        /\ Len(outcomes) = idx - 1
        /\ calls.forecaster = idx - 1
    /\ pc \in {"COMBINE", "DONE"} /\ segments # <<>> =>
        /\ Len(outcomes) = Len(segments)
        /\ calls.forecaster = Len(segments)
    /\ segments # <<>> =>
        /\ Len(segment_forecasts) = Len(Forecasted)
        /\ \A i \in DOMAIN segment_forecasts :
            /\ segment_forecasts[i].segment_id = Forecasted[i].segment_id
            /\ segment_forecasts[i].metadata = Forecasted[i].metadata
    /\ Returns /\ segments # <<>> => result.num_segments = Len(Forecasted)

\* the first of two segments failed, the second was forecast and merged
C10_Witness ==
    /\ Returns
    /\ Len(segments) = 2
    /\ outcomes = <<FALSE, TRUE>>
    /\ result.num_segments = 1

\* C11: under every strategy, hierarchical leaves included, the metadata of
\* every returned Segment has 'size' equal to the number of records it holds
C11_MetadataSizeIsRecordCount ==
    \A i \in DOMAIN segments :
        /\ "size" \in segments[i].metadata.keys
        /\ segments[i].metadata.size = Len(segments[i].data)

\* C12: no segmentation operation changes the dataset it is given: after the
\* call the caller's dataset has the columns it had before
C12_SegmenterLeavesDatasetAlone ==
    pc = "RETURNED" => columns = BaseColumns

\* C13: within one segmentation run no two returned Segments have the same
\* segment_id, whatever the key columns hold
C13_SegmentIdsAreUnique ==
    \A i, j \in DOMAIN segments :
        segments[i].segment_id = segments[j].segment_id => i = j

\* the list s in the order p
Permuted(s, p) == List([i \in DOMAIN s |-> s[p[i]]])

\* two merge calls ended alike: both raised, or both returned the same
\* forecast vector and the same confidence
SameMerge(a, b) ==
    /\ a.ok = b.ok
    /\ a.ok => (a.forecast = b.forecast /\ a.confidence = b.confidence)

C17_MergedConfidenceInUnitInterval ==
    (/\ merge_call.called
     /\ merge_call.asked \in MergeStrategies
     /\ Len(merge_call.given) >= 1
     /\ merge_call.out.ok) =>
        /\ RLe(R(0), merge_call.out.confidence)
        /\ RLe(merge_call.out.confidence, R(1))

\* a size-weighted confidence strictly between those of two members
C17_Witness ==
    /\ merge_call.called
    /\ merge_call.asked = "weighted_average"
    /\ merge_call.out.ok
    /\ Len(merge_call.given) = 2
    /\ merge_call.given[1].confidence = R(0)
    /\ merge_call.given[2].confidence = R(1)
    /\ merge_call.out.confidence = <<2, 3>>

\* C18: no merge strategy changes its input: after merge returned or raised,
\* the list and every member's values are what they were at the call
C18_MergeLeavesInputAlone ==
    merge_call.called => segment_forecasts = merge_call.given

\* a merge of two members, the more confident one first
C18_Witness ==
    /\ merge_call.called
    /\ merge_call.out.ok
    /\ Len(merge_call.given) = 2
    /\ RGt(merge_call.given[1].confidence, merge_call.given[2].confidence)
    /\ segment_forecasts = merge_call.given

\* the moving-average forecast of the segment ensemble_forecast was called on
MovingAverage == forecast_moving_average(df, horizon).v

\* the static weights renormalised over the given ones
Renormalised(ws) == List([i \in DOMAIN ws |-> RDiv(ws[i], RSum(ws))])

\* C19: when exactly one of the two statistical models fails, the combined
\* forecast is the weighted average of the succeeded model and the moving
\* average only, with their static weights renormalised over the two
C19_FailedModelIsExcluded ==
    (/\ ensemble_call.called
     /\ ensemble_call.out.ok
     /\ ensemble_call.arima_failed # ensemble_call.es_failed) =>
        ensemble_call.out.forecast =
            IF ensemble_call.es_failed
            THEN NpAverage(<<ensemble_call.arima_fit.v, MovingAverage>>,
                           Renormalised(<< <<4, 10>>, <<3, 10>> >>)).v
            ELSE NpAverage(<<ensemble_call.es_fit.v, MovingAverage>>,
                           Renormalised(<< <<3, 10>>, <<3, 10>> >>)).v

\* C20: whenever ensemble_forecast returns, the moving average is one of the
\* members and the weights sum to 1; when all three models succeed the
\* combined forecast is 0.4 x ARIMA + 0.3 x smoothing + 0.3 x moving average
C20_EnsembleIsWeightedAverage ==
    (ensemble_call.called /\ ensemble_call.out.ok) =>
        /\ MovingAverage \in Range(ensemble_call.out.members)
        /\ Len(ensemble_call.out.weights) = Len(ensemble_call.out.members)
        /\ RSum(ensemble_call.out.weights) = R(1)
        /\ (~ensemble_call.arima_failed /\ ~ensemble_call.es_failed) =>
                /\ Len(ensemble_call.out.forecast) = horizon
                /\ \A j \in 1..horizon :
                     ensemble_call.out.forecast[j] =
                        RAdd(RMul(<<4, 10>>, ensemble_call.arima_fit.v[j]),
                             RAdd(RMul(<<3, 10>>, ensemble_call.es_fit.v[j]),
                                  RMul(<<3, 10>>, MovingAverage[j])))

\* all three models succeeded and gave three different forecasts
C20_Witness ==
    /\ ensemble_call.called
    /\ ensemble_call.out.ok
    /\ ~ensemble_call.arima_failed
    /\ ~ensemble_call.es_failed
    /\ horizon = MaxHorizon
    /\ ensemble_call.arima_fit.v # ensemble_call.es_fit.v
    /\ ensemble_call.arima_fit.v # MovingAverage
    /\ ensemble_call.es_fit.v # MovingAverage
    /\ Len(ensemble_call.out.members) = 3

\* all records of the dataset belong to one route
OneRoute(rows) ==
    \A i, j \in DOMAIN rows :
        /\ rows[i].origin = rows[j].origin
        /\ rows[i].destination = rows[j].destination

\* C16: for a dataset of one route with at least min_segment_size records,
\* predict with strategy 'route' forecasts exactly one segment and returns a
\* confidence of at least 0.6, whichever statistical models succeed or fail
C16_SingleRouteConfidence ==
    (/\ Returns
     /\ segmentation_strategy = "route"
     /\ Len(df) >= 1
     /\ Len(df) >= min_segment_size
     /\ OneRoute(df)) =>
        /\ calls.forecaster = 1
        /\ result.num_segments = 1
        /\ RLe(<<6, 10>>, result.confidence)

\* C15: two runs of predict on the same dataset, horizon and strategy, the
\* second made on the same dataset object after the first has finished,
\* return identical results
C15_RerunGivesSameResult ==
    Len(runs) >= 2 => runs[1] = runs[2]

\* the first run added a column to the dataset and both runs merged segments
C15_Witness ==
    /\ Len(runs) = 2
    /\ segmentation_strategy = "temporal"
    /\ "period" \in columns
    /\ runs[1].kind = "returned"
    /\ runs[1].num_segments >= 1
    /\ runs[2] = runs[1]

\* what each phase of predict has invoked so far
PhaseCalls ==
    /\ pc = "DIVIDE" => calls = NoCalls
    /\ pc = "CONQUER" =>
        /\ calls = [segmenter |-> 1, forecaster |-> idx - 1, merger |-> 0]
        /\ Len(outcomes) = idx - 1
        /\ idx <= Len(segments)
    /\ pc = "COMBINE" =>
        /\ calls = [segmenter |-> 1, forecaster |-> Len(segments), merger |-> 0]
        /\ Len(outcomes) = Len(segments)
    /\ (pc = "DONE" /\ calls.merger > 0) =>
        /\ calls = [segmenter |-> 1, forecaster |-> Len(segments), merger |-> 1]
        /\ Len(outcomes) = Len(segments)
        /\ merge_call.called
        /\ merge_call.asked = "confidence_based"

\* a step of predict moves to the next phase, or to the next segment
PhaseStep ==
    \/ pc = "DIVIDE" /\ pc' \in {"FALLBACK", "CONQUER", "DONE"}
    \/ pc = "FALLBACK" /\ pc' = "DONE"
    \/ pc = "CONQUER" /\ pc' = "CONQUER" /\ idx' = idx + 1 /\ idx < Len(segments)
    \/ pc = "CONQUER" /\ pc' = "COMBINE" /\ idx = Len(segments)
    \/ pc = "COMBINE" /\ pc' = "DONE"

\* C21: a run of predict that reaches COMBINE goes DIVIDE, CONQUER, COMBINE,
\* DONE with no phase repeated: the Segmenter is invoked once before any
\* forecast, the Forecaster once for each segment, and the Merger once, with
\* confidence_based, after every segment was attempted
C21_PhasesInOrder == [](PhaseCalls) /\ [][PhaseStep]_vars

\* a run of two calls to the Forecaster, one of which failed, then one merge
C21_Witness ==
    /\ pc = "DONE"
    /\ merge_call.called
    /\ merge_call.asked = "confidence_based"
    /\ calls = [segmenter |-> 1, forecaster |-> 2, merger |-> 1]
    /\ outcomes = <<TRUE, FALSE>>

\* the elementwise sum of the member forecasts, each times its weight
WeightedForecast(sfs, ws) ==
    List([j \in DOMAIN sfs[1].forecast |->
            RSum(List([i \in DOMAIN sfs |-> RMul(ws[i], sfs[i].forecast[j])]))])

\* the confidences of the members
Confidences(sfs) == List([i \in DOMAIN sfs |-> sfs[i].confidence])

\* each confidence over the sum of all
NormalisedConfidences(sfs) ==
    List([i \in DOMAIN sfs |-> RDiv(sfs[i].confidence, RSum(Confidences(sfs)))])

\* x is the largest of the numbers xs
IsMaxOf(x, xs) == x \in Range(xs) /\ \A i \in DOMAIN xs : RLe(xs[i], x)

\* C22: confidence_based weights each member by its confidence over the sum
\* of all confidences, returns the elementwise weighted average of the member
\* forecasts and the maximum member confidence
C22_ConfidenceBasedMerge ==
    (/\ merge_call.called
     /\ merge_call.asked = "confidence_based"
     /\ Len(merge_call.given) >= 1
     /\ merge_call.out.ok) =>
        /\ merge_call.out.weights = NormalisedConfidences(merge_call.given)
        /\ merge_call.out.forecast =
                WeightedForecast(merge_call.given,
                                 NormalisedConfidences(merge_call.given))
        /\ IsMaxOf(merge_call.out.confidence, Confidences(merge_call.given))

\* two members of confidence 0.5 and 1 and forecasts 1 and 3 merge to 7/3
C22_Witness ==
    /\ merge_call.called
    /\ merge_call.asked = "confidence_based"
    /\ merge_call.out.ok
    /\ Len(merge_call.given) = 2
    /\ merge_call.given[1].confidence = <<1, 2>>
    /\ merge_call.given[2].confidence = R(1)
    /\ merge_call.given[1].forecast[1] = R(1)
    /\ merge_call.given[2].forecast[1] = R(3)
    /\ merge_call.out.forecast[1] = <<7, 3>>
    /\ merge_call.out.confidence = R(1)

\* the size of a member: metadata.size, or 1 when the metadata has none
MemberSize(sf) == IF "size" \in sf.metadata.keys THEN sf.metadata.size ELSE 1

\* each size over the sum of all
NormalisedSizes(sfs) ==
    List([i \in DOMAIN sfs |->
            Norm(MemberSize(sfs[i]),
                 IntSum(List([k \in DOMAIN sfs |-> MemberSize(sfs[k])])))])

\* C23: weighted_average weights each member by its size over the sum of all
\* sizes (size 1 without a size); the merged forecast is the elementwise
\* weighted average and the merged confidence the average of the member
\* confidences under the same weights
C23_WeightedAverageMerge ==
    (/\ merge_call.called
     /\ merge_call.asked = "weighted_average"
     /\ Len(merge_call.given) >= 1
     /\ merge_call.out.ok) =>
        /\ merge_call.out.weights = NormalisedSizes(merge_call.given)
        /\ merge_call.out.forecast =
                WeightedForecast(merge_call.given, NormalisedSizes(merge_call.given))
        /\ merge_call.out.confidence =
                RSum(List([i \in DOMAIN merge_call.given |->
                        RMul(NormalisedSizes(merge_call.given)[i],
                             merge_call.given[i].confidence)]))

\* a member without a size (weight 1/3) and one of size 2 (weight 2/3)
C23_Witness ==
    /\ merge_call.called
    /\ merge_call.asked = "weighted_average"
    /\ merge_call.out.ok
    /\ Len(merge_call.given) = 2
    /\ merge_call.given[1].metadata = EmptyMetadata
    /\ merge_call.given[2].metadata.size = 2
    /\ merge_call.given[1].forecast[1] = R(1)
    /\ merge_call.given[2].forecast[1] = R(3)
    /\ merge_call.out.forecast[1] = <<7, 3>>
    /\ merge_call.out.weights = << <<1, 3>>, <<2, 3>> >>

\* the first two '_'-separated tokens of a segment_id
FirstTwoTokens(id) == IF Len(id) <= 2 THEN id ELSE <<id[1], id[2]>>

\* the members of the list whose segment_id starts with the key
GroupOf(sfs, key) ==
    SelectSeq(sfs, LAMBDA sf : FirstTwoTokens(sf.segment_id) = key)

\* the elements of a set, listed in some order
RECURSIVE SetToSeq(_)
SetToSeq(S) ==
    IF S = {} THEN <<>>
    ELSE LET x == CHOOSE y \in S : TRUE IN <<x>> \o SetToSeq(S \ {x})

\* the groups of a list, one for each distinct key
Groups(sfs) ==
    LET keys == SetToSeq({FirstTwoTokens(sfs[i].segment_id) : i \in DOMAIN sfs})
    IN  List([g \in DOMAIN keys |-> GroupOf(sfs, keys[g])])

\* a group merged by confidence: its weighted forecast and largest confidence
GroupForecast(group) ==
    [forecast |-> WeightedForecast(group, NormalisedConfidences(group)),
     confidence |-> CHOOSE x \in Range(Confidences(group)) :
                        IsMaxOf(x, Confidences(group))]

\* C24: hierarchical merge groups the members by the first two tokens of
\* their segment_id, merges each group by confidence, combines the group
\* forecasts weighted by group confidence normalised to sum to 1, and returns
\* the mean group confidence, the number of distinct keys as num_groups and
\* the number of members as num_segments
C24_HierarchicalMerge ==
    (/\ merge_call.called
     /\ merge_call.asked = "hierarchical"
     /\ Len(merge_call.given) >= 1
     /\ merge_call.out.ok) =>
        LET groups == Groups(merge_call.given)
            merged == List([g \in DOMAIN groups |-> GroupForecast(groups[g])])
        IN  /\ merge_call.out.num_segments = Len(merge_call.given)
            /\ merge_call.out.num_groups = Len(groups)
            /\ IntSum(List([g \in DOMAIN groups |-> Len(groups[g])]))
                    = Len(merge_call.given)
            /\ merge_call.out.forecast =
                    WeightedForecast(merged, NormalisedConfidences(merged))
            /\ merge_call.out.confidence =
                    RDiv(RSum(Confidences(merged)), R(Len(groups)))

\* two members of two routes: two groups, the forecasts 1 and 3 weighted by
\* the confidences 0.5 and 1
C24_Witness ==
    /\ merge_call.called
    /\ merge_call.asked = "hierarchical"
    /\ merge_call.out.ok
    /\ merge_call.out.num_groups = 2
    /\ merge_call.out.num_segments = 2
    /\ merge_call.given[1].confidence = <<1, 2>>
    /\ merge_call.given[2].confidence = R(1)
    /\ merge_call.given[1].forecast[1] = R(1)
    /\ merge_call.given[2].forecast[1] = R(3)
    /\ merge_call.out.forecast[1] = <<7, 3>>
    /\ merge_call.out.confidence = <<3, 4>>

\* the route of a record
RouteOf(r) == <<r.origin, r.destination>>

\* the records of a route, and those of a route in one week, in dataset order
RouteRows(rows, k) == SelectSeq(rows, LAMBDA r : RouteOf(r) = k)

RouteWeekRows(rows, k, w) ==
    SelectSeq(rows, LAMBDA r : RouteOf(r) = k /\ ((r.date - 1) \div 7) + 1 = w)

\* the routes of the dataset that have at least min_segment_size records
QualifyingRoutes ==
    {k \in {RouteOf(df[i]) : i \in DOMAIN df} :
        Len(RouteRows(df, k)) >= min_segment_size}

\* the (route, week) pairs of the qualifying routes that have at least
\* min_segment_size records of their own
QualifyingLeaves ==
    {kw \in QualifyingRoutes \X {((df[i].date - 1) \div 7) + 1 : i \in DOMAIN df} :
        /\ Len(RouteWeekRows(df, kw[1], kw[2])) >= min_segment_size
        /\ Len(RouteWeekRows(df, kw[1], kw[2])) >= 1}

\* the segment is the leaf of the route and week kw
IsLeafOf(segment, kw) ==
    /\ segment.data = RouteWeekRows(df, kw[1], kw[2])
    /\ segment.segment_id =
            <<"route">> \o kw[1][1] \o kw[1][2]
                \o <<"temporal", "W" \o ToString(kw[2])>>

\* C25: hierarchical segmentation forms the route segments that meet
\* min_segment_size (one top-level group for each qualifying route) and
\* splits each one's own records by week; every leaf holds the records of
\* one route and one week, at least min_segment_size of them, and its id is
\* the route segment's id + '_' + the temporal segment's id
C25_HierarchicalSegmentation ==
    (pc = "RETURNED" /\ segmentation_strategy = "hierarchical") =>
        /\ Len(segment_by_route(df, BaseColumns, min_segment_size).segs)
                = Cardinality(QualifyingRoutes)
        /\ Len(segments) = Cardinality(QualifyingLeaves)
        /\ \A i \in DOMAIN segments :
            /\ Len(segments[i].data) >= min_segment_size
            /\ \E kw \in QualifyingLeaves : IsLeafOf(segments[i], kw)
        /\ \A kw \in QualifyingLeaves :
                \E i \in DOMAIN segments : IsLeafOf(segments[i], kw)

\* three qualifying routes, three top-level groups, one leaf each
C25_Witness ==
    /\ pc = "RETURNED"
    /\ segmentation_strategy = "hierarchical"
    /\ min_segment_size = 1
    /\ Cardinality(QualifyingRoutes) = 3
    /\ Len(segment_by_route(df, BaseColumns, min_segment_size).segs) = 3
    /\ Len(segments) = 3

\* C30: when hierarchical merge is applied to the forecasts of route or
\* hierarchical segments, two forecasts share a group only if their segments
\* belong to the same route, so there are at least as many groups as routes
C30_GroupsAreRoutes ==
    (pc = "MERGED" /\ merge_call.out.ok) =>
        /\ \A i, j \in DOMAIN merge_call.given :
                HierarchyKey(merge_call.given[i].segment_id)
                    = HierarchyKey(merge_call.given[j].segment_id)
                => RouteOf(segments[i].data[1]) = RouteOf(segments[j].data[1])
        /\ merge_call.out.num_groups >=
                Cardinality({RouteOf(segments[i].data[1]) : i \in DOMAIN segments})

\* k = min(5, floor(|dataset| / min_segment_size)), for min_segment_size >= 1
ClusterCount ==
    IF Len(df) \div min_segment_size > 5 THEN 5
    ELSE Len(df) \div min_segment_size

\* the rows of the dataset that the clustering labelled c
ClusterMembers(c) == {i \in DOMAIN df : seed.labels[i] = c}

\* the clusters that hold at least min_segment_size records
LargeClusters ==
    {c \in 0..(ClusterCount - 1) :
        Cardinality(ClusterMembers(c)) >= min_segment_size}

C27_RowOrderIsIrrelevant ==
    (Len(runs) = 2 /\ runs[1].kind = "returned") =>
        /\ runs[2].kind = "returned"
        /\ runs[2].forecast = runs[1].forecast
        /\ runs[2].confidence = runs[1].confidence

\* the arithmetic mean of the last min(n, window) of the n prices
MeanOfLast(prices, window) ==
    LET m == IF Len(prices) < window THEN Len(prices) ELSE window
        last == SubSeq(prices, Len(prices) - m + 1, Len(prices))
    IN  RDiv(RSum(last), R(m))

\* C28: for a segment with n >= 1 prices the moving-average forecast, the
\* last member of the ensemble, is the constant vector of length horizon of
\* the arithmetic mean of the last min(n, window) prices; for n < window,
\* the mean of all n prices
C28_MovingAverageIsWindowMean ==
    (ensemble_call.called /\ Len(df) >= 1 /\ AllNumeric(df)) =>
        /\ ensemble_call.out.ok
        /\ ensemble_call.out.members[Len(ensemble_call.out.members)]
                = Full(horizon, MeanOfLast(PriceValues(df), MAWindow))

\* how many rows of xs are the record r
Occurrences(r, xs) == Cardinality({i \in DOMAIN xs : xs[i] = r})

\* the rows of all returned segments, one after the other
SegmentRows == Flatten([i \in DOMAIN segments |-> segments[i].data])

\* C29: the segments returned by one segmentation run, under every strategy
\* including hierarchical, are drawn from the input and pairwise disjoint:
\* every record of every segment is a record of the input dataset, and no
\* input record is in more than one segment (the segments together hold a
\* record no more often than the dataset does)
C29_SegmentsAreDisjoint ==
    (pc = "RETURNED" /\ SegmenterReturned) =>
        \A rows \in {SegmentRows} :
            /\ Range(rows) \subseteq Range(df)
            /\ \A r \in Range(df) : Occurrences(r, rows) <= Occurrences(r, df)

\* a hierarchical run that returns two leaves, holding all the records
C29_Witness ==
    /\ pc = "RETURNED"
    /\ SegmenterReturned
    /\ segmentation_strategy = "hierarchical"
    /\ Len(df) = 3
    /\ Len(segments) = 2
    /\ Len(SegmentRows) = 3

====
